---- MODULE Spec2Model ----
(***************************************************************************)
(* PanelAppAusDB: incremental synchronisation of per-panel version         *)
(* markers.  The data folder holds panel_list.tsv (the catalog) and one    *)
(* panels/<id>/version_created.txt per panel (the version record).         *)
(*   - extract_panel_list.py writes the catalog and the version records.  *)
(*   - extract_genes_incremental.py reads the catalog, plans the panels   *)
(*     to refresh (panel_needs_update), downloads them and commits the    *)
(*     marker of every successful download.                               *)
(*   - extract_panels.py (the wrapper) runs the two scripts, and two      *)
(*     optional ones, as subprocesses on the same folder (SpecWrapper).   *)
(*   - the pagination loops of the scripts, pass by pass (SpecPages).     *)
(*                                                                         *)
(* Texts (file contents, catalog cells, API values) are records            *)
(*   [k, t, off]: k = "ts" is an ISO-8601 timestamp whose local time is t  *)
(*   (in hours) and whose offset suffix is off ("none", "Z", "+01:00");   *)
(*   k = "junk" is a non-empty text that is no timestamp (e.g. "None");   *)
(*   k = "empty" is ""; k = "blank" is whitespace only; k = "null" is the  *)
(*   JSON null / Python None of an API answer.                             *)
(***************************************************************************)
EXTENDS Integers, Sequences, FiniteSets, TLC

\* ---------------------------------------------------------------- bounds
MaxTime == 2

\* the panel ids of the model's universe
Panels == {"137", "42"}

Offsets == {"none", "Z", "+01:00"}

\* ----------------------------------------------------------------- texts
Ts(t, off) == [k |-> "ts", t |-> t, off |-> off]
Junk == [k |-> "junk", t |-> 0, off |-> "none"]
Empty == [k |-> "empty", t |-> 0, off |-> "none"]
Blank == [k |-> "blank", t |-> 0, off |-> "none"]
Null == [k |-> "null", t |-> 0, off |-> "none"]

\* a path that does not exist
Absent == [k |-> "absent", t |-> 0, off |-> "none"]

Timestamps == {Ts(t, off) : t \in 1..MaxTime, off \in Offsets}

\* values the API may carry in a panel's version_created field
ApiMarkers == Timestamps \cup {Junk, Blank, Null}

\* the second panel is there for the order of the lists and for the records
\* of other panels: its marker is one of two instants, an hour apart
SmallMarkers == {Ts(1, "+01:00"), Ts(1, "Z")}

ApiMarkersOf(id) == IF id = "137" THEN ApiMarkers ELSE SmallMarkers

\* str.strip(): whitespace-only text becomes the empty string
Strip(x) == IF x.k = "blank" THEN Empty ELSE x

\* str.replace('Z', '+00:00')
ReplaceZ(x) == IF x.k = "ts" /\ x.off = "Z" THEN [x EXCEPT !.off = "+00:00"] ELSE x

\* f"{value}": None is formatted as the text "None"
Format(x) == IF x.k = "null" THEN Junk ELSE x

\* datetime.fromisoformat: a datetime (naive or aware) or ValueError.  The
\* 'Z' suffix is not accepted by fromisoformat before Python 3.11, which is
\* why the script replaces it first.
NoDate == [exc |-> "ValueError", local |-> 0, aware |-> FALSE, utcoff |-> 0]

fromisoformat(x) ==
    IF x.k # "ts" \/ x.off = "Z" THEN NoDate
    ELSE [exc |-> "none", local |-> x.t, aware |-> (x.off # "none"),
          utcoff |-> (IF x.off = "+01:00" THEN 1 ELSE 0)]

\* datetime.__gt__: "True", "False" or TypeError when naive meets aware
DateGreater(a, b) ==
    IF a.aware # b.aware THEN "TypeError"
    ELSE IF a.aware
         THEN (IF a.local - a.utcoff > b.local - b.utcoff THEN "True" ELSE "False")
         ELSE (IF a.local > b.local THEN "True" ELSE "False")

\* ------------------------------------------------- version file (storage)
\* open(version_file, 'w') followed by f.write(text), as both writers do it.
\* fault "open_error": mkdir or open raises, the file is left as it was;
\* fault "write_error": the file is truncated by open and the write raises.
\* Writing None raises TypeError after the file has been truncated.
WriteFaults == {"none", "open_error", "write_error"}

\* variant: the file is opened for appending; text added to a non-empty file
\* gives a text that is no timestamp
WriteFile_Append(files, id, text, fault) ==
    IF fault # "none" \/ text.k = "null" THEN [files |-> files, exc |-> "OSError"]
    ELSE IF files[id] \in {Absent, Empty}
         THEN [files |-> [files EXCEPT ![id] = text], exc |-> "none"]
    ELSE [files |-> [files EXCEPT ![id] = Junk], exc |-> "none"]

WriteFile(files, id, text, fault) ==
    IF fault = "open_error" THEN [files |-> files, exc |-> "OSError"]
    ELSE IF fault = "write_error"
         THEN [files |-> [files EXCEPT ![id] = Empty], exc |-> "OSError"]
    ELSE IF text.k = "null"
         THEN [files |-> [files EXCEPT ![id] = Empty], exc |-> "TypeError"]
    ELSE [files |-> [files EXCEPT ![id] = text], exc |-> "none"]

\* update_panel_version_tracking: commit the catalog marker of a panel
update_panel_version_tracking(files, panel, fault) ==
    WriteFile(files, panel.id, panel.version_created, fault)

\* ------------------------------------------------------ panel_needs_update
\* variant: the version file is opened for update, which truncates it
OpenRead_Truncating(files, id) == [files |-> [files EXCEPT ![id] = Empty], text |-> Empty]

\* `with open(version_file, 'r', ...) as f: f.read()`: the content of the file;
\* a file opened for reading stays as it is
OpenRead(files, id) == [files |-> files, text |-> files[id]]

\* the body of the try block: the read, the empty check, the two parses and
\* the comparison; the result is "True", "False" or the exception raised
TryCompare(panel, files, ioFail) ==
    IF ioFail THEN "OSError"
    ELSE LET last_version_created == Strip(OpenRead(files, panel.id).text) IN
         IF last_version_created.k = "empty" THEN "True"
         ELSE LET current_date == fromisoformat(ReplaceZ(panel.version_created)) IN
              IF current_date.exc # "none" THEN current_date.exc
              ELSE LET last_date == fromisoformat(ReplaceZ(last_version_created)) IN
                   IF last_date.exc # "none" THEN last_date.exc
                   ELSE DateGreater(current_date, last_date)

\* variant: an exception makes the panel count as up to date
ExceptHandler_Skip(r) == IF r \in {"True", "False"} THEN r ELSE "False"

\* except Exception: log a warning, return True
ExceptHandler(r) == IF r \in {"True", "False"} THEN r ELSE "True"

\* variant: a panel without a version file is left out unless forced
panel_needs_update_MissingSkipped(panel, files, force, ioFail) ==
    IF force THEN "True"
    ELSE IF files[panel.id] = Absent THEN "False"
    ELSE ExceptHandler(TryCompare(panel, files, ioFail))

\* panel_needs_update(panel, data_folder, force); ioFail says that opening or
\* reading an existing version file raises OSError
panel_needs_update(panel, files, force, ioFail) ==
    IF force THEN "True"
    ELSE IF files[panel.id] = Absent THEN "True"
    ELSE ExceptHandler(TryCompare(panel, files, ioFail))

\* variant: the kept panels are collected in reverse order
RECURSIVE FilterPanels_Prepend(_, _, _, _, _, _)
FilterPanels_Prepend(panels, files, force, rf, i, acc) ==
    IF i > Len(panels) THEN [exc |-> FALSE, list |-> acc]
    ELSE LET r == panel_needs_update(panels[i], files, force, panels[i].id \in rf) IN
         IF r = "True"
         THEN FilterPanels_Prepend(panels, files, force, rf, i + 1, <<panels[i]>> \o acc)
         ELSE IF r = "False" THEN FilterPanels_Prepend(panels, files, force, rf, i + 1, acc)
         ELSE [exc |-> TRUE, list |-> acc]

\* the list comprehension of main: panels kept in catalog order; acc is the
\* list built so far, i the next catalog position, rf the set of ids whose
\* version file cannot be read
RECURSIVE FilterPanels(_, _, _, _, _, _)
FilterPanels(panels, files, force, rf, i, acc) ==
    IF i > Len(panels) THEN [exc |-> FALSE, list |-> acc]
    ELSE LET r == panel_needs_update(panels[i], files, force, panels[i].id \in rf) IN
         IF r = "True" THEN FilterPanels(panels, files, force, rf, i + 1, Append(acc, panels[i]))
         ELSE IF r = "False" THEN FilterPanels(panels, files, force, rf, i + 1, acc)
         ELSE [exc |-> TRUE, list |-> acc]

\* what the plan leaves on disk: exists() is asked for every panel, and the
\* version file of a panel is opened for reading unless force is set, the
\* file is missing or opening it raises (ids in rf)
RECURSIVE PlanFiles(_, _, _, _, _)
PlanFiles(panels, files, force, rf, i) ==
    IF i > Len(panels) THEN files
    ELSE LET id == panels[i].id
             after == IF force \/ files[id] = Absent \/ id \in rf THEN files
                      ELSE OpenRead(files, id).files
         IN  PlanFiles(panels, after, force, rf, i + 1)

\* ------------------------------------------------------------- catalog file
\* read_panel_data: one panel per row, the marker stripped; no file, no panels
RECURSIVE StripRows(_, _)
StripRows(rows, i) ==
    IF i > Len(rows) THEN <<>>
    ELSE <<[id |-> rows[i].id, version_created |-> Strip(rows[i].version_created)]>>
         \o StripRows(rows, i + 1)

NoCatalog == <<[id |-> "-", version_created |-> Absent]>>

\* variant: the fields of a row are taken as they are in the file
read_panel_data_Raw(tsvfile) == IF tsvfile = NoCatalog THEN <<>> ELSE tsvfile

read_panel_data(tsvfile) == IF tsvfile = NoCatalog THEN <<>> ELSE StripRows(tsvfile, 1)

\* ------------------------------------------------------------ gene download
\* the safety limit of the pagination loop
PageLimit == 100

\* what the server does for one panel: it has `pages` pages (0 = it answers
\* every page with a next link) and the request of page errAt fails (0 = none)
ServerBehaviours ==
    {[pages |-> 1, errAt |-> 0], [pages |-> 2, errAt |-> 0],
     [pages |-> 1, errAt |-> 1], [pages |-> 2, errAt |-> 2],
     [pages |-> 0, errAt |-> 0]}

\* the while loop of download_panel_genes from the request of page `page` on
RECURSIVE PageLoop(_, _)
PageLoop(sv, page) ==
    IF sv.errAt = page THEN [success |-> FALSE, pages_downloaded |-> page - 1]
    ELSE LET more == (sv.pages = 0) \/ (page < sv.pages) IN
         IF more /\ ~(page + 1 > PageLimit) THEN PageLoop(sv, page + 1)
         ELSE [success |-> TRUE, pages_downloaded |-> page]

download_panel_genes(sv) == PageLoop(sv, 1)

\* ------------------------------------------------------- panel list script
Rows(M) == [id : Panels, version_created : M]

\* lists of rows with pairwise different ids, in any order
Lists(M) ==
    {s \in UNION {[1..n -> Rows(M)] : n \in 0..Cardinality(Panels)} :
        \A i, j \in DOMAIN s : i # j => s[i].id # s[j].id}

\* the panels the API may return (one page of results)
ApiResponses ==
    {s \in Lists(ApiMarkers) : \A i \in DOMAIN s : s[i].version_created \in ApiMarkersOf(s[i].id)}

\* the loop of extract_panel_info over the results of the page file: the row
\* is collected first, then the version file of the panel is written.  An
\* exception (fault at position faultAt, or a null marker) leaves the loop:
\* the rows collected so far still go to the catalog.
RECURSIVE ExtractLoop(_, _, _, _, _, _)
ExtractLoop(results, files, i, data, faultAt, fault) ==
    IF i > Len(results) THEN [files |-> files, data |-> data]
    ELSE LET panel == results[i]
             row == [id |-> panel.id, version_created |-> Format(panel.version_created)]
             w == WriteFile(files, panel.id, panel.version_created,
                            IF i = faultAt THEN fault ELSE "none")
         IN  IF w.exc # "none"
             THEN [files |-> w.files, data |-> Append(data, row)]
             ELSE ExtractLoop(results, w.files, i + 1, Append(data, row), faultAt, fault)

extract_panel_info(results, files, faultAt, fault) ==
    ExtractLoop(results, files, 1, <<>>, faultAt, fault)

\* ------------------------------------------------------------------- state
VARIABLES
    versions,          \* panels/<id>/version_created.txt: a text or Absent
    tsv,               \* panel_list.tsv: its rows, or NoCatalog
    dataFolder,        \* the data folder exists
    pc,                \* incremental script: "idle" (not running) or "loop"
    force,             \* args.force of the running incremental script
    panels,            \* the catalog as read by the running script
    panels_to_update,  \* its refresh list
    idx,               \* position of the for loop in panels_to_update
    successful,
    failed,
    exitCode,          \* exit status of the last incremental run (-1: none)
    last,              \* history: the last step taken
    wr,                \* an open version file whose buffer is not flushed yet
    observed,          \* what a reader got from a version file
    wrapper,           \* extract_panels.py: its position, arguments and results
    downloaded,        \* history: the marker the wrapper's gene step recorded
                       \* when it last downloaded a panel's genes (Absent: none)
    dl                 \* a pagination loop: its locals and what it did so far

runVars == <<pc, force, panels, panels_to_update, idx, successful, failed>>
concVars == <<wr, observed>>
auxVars == <<wrapper, downloaded, dl>>
vars == <<versions, tsv, dataFolder, pc, force, panels, panels_to_update, idx,
          successful, failed, exitCode, last, wr, observed, wrapper, downloaded, dl>>

Step(op, id, f, rf) == [op |-> op, id |-> id, force |-> f, rf |-> rf]

NoWrite == [open |-> FALSE, id |-> "-", prev |-> Absent, text |-> Absent]
NoRead == [id |-> "-", text |-> Absent, during |-> NoWrite]

\* the result of a call of run_script; step "-": no call yet
NoCall == [step |-> "-", exists |-> FALSE, ok |-> FALSE]

\* the wrapper is not running and has not run
WrapperOff ==
    [pc |-> "off", skip_genes |-> FALSE, skip_strs |-> FALSE, skip_regions |-> FALSE,
     success |-> TRUE, started |-> <<>>, call |-> NoCall, exit |-> -1]

\* no pagination loop is running and none has run
NoDownload ==
    [pc |-> "off", script |-> "-", page |-> 0, next_url |-> FALSE,
     requested |-> 0, saved |-> 0, file |-> 0, success |-> FALSE, committed |-> FALSE]

Init ==
    /\ versions = [p \in Panels |-> Absent]
    /\ tsv = NoCatalog
    /\ dataFolder = FALSE
    /\ pc = "idle"
    /\ force = FALSE
    /\ panels = <<>>
    /\ panels_to_update = <<>>
    /\ idx = 1
    /\ successful = 0
    /\ failed = 0
    /\ exitCode = -1
    /\ last = Step("init", "-", FALSE, {})
    /\ wr = NoWrite
    /\ observed = NoRead
    /\ wrapper = WrapperOff
    /\ downloaded = [p \in Panels |-> Absent]
    /\ dl = NoDownload

\* the process of the incremental script ends with status code
Exit(code) ==
    /\ pc' = "idle"
    /\ force' = FALSE
    /\ panels' = <<>>
    /\ panels_to_update' = <<>>
    /\ idx' = 1
    /\ successful' = 0
    /\ failed' = 0
    /\ exitCode' = code

\* extract_panel_list.py, one run: extract_data.  apiOK = FALSE: the version
\* check or the download of the panel pages raises, nothing is extracted.
PanelListScript(results, apiOK, faultAt, fault) ==
    /\ pc = "idle"
    /\ (faultAt = 0) = (fault = "none")
    /\ faultAt <= Len(results)
    /\ (~apiOK => results = <<>> /\ faultAt = 0)
    /\ dataFolder' = TRUE
    /\ IF apiOK
       THEN LET x == extract_panel_info(results, versions, faultAt, fault) IN
            /\ versions' = x.files
            /\ tsv' = x.data
            /\ last' = Step("panel_list", "-", FALSE, {})
       ELSE /\ UNCHANGED <<versions, tsv>>
            /\ last' = Step("panel_list_failed", "-", FALSE, {})
    /\ UNCHANGED <<runVars, exitCode, concVars>>

\* extract_panel_list.py run on its own
RunPanelList(results, apiOK, faultAt, fault) == PanelListScript(results, apiOK, faultAt, fault) /\ UNCHANGED auxVars

\* -------------------------------------------------- incremental gene script
\* ids whose version file exists and may therefore fail to be read
Readable(rows) == {rows[i].id : i \in {j \in DOMAIN rows : versions[rows[j].id] # Absent}}

\* main up to the for loop: the data folder check, the catalog, the plan.
\* f is --force, rf the ids whose version file cannot be read in this run
\* (nothing is read when f is set).
GeneScriptStart(f, rf) ==
    /\ pc = "idle"
    /\ rf \subseteq (IF f THEN {} ELSE Readable(read_panel_data(tsv)))
    /\ IF ~dataFolder
       THEN Exit(1) /\ last' = Step("no_folder", "-", FALSE, {}) /\ UNCHANGED versions
       ELSE LET catalog == read_panel_data(tsv)
                plan == FilterPanels(catalog, versions, f, rf, 1, <<>>)
            IN  /\ versions' = PlanFiles(catalog, versions, f, rf, 1)
                /\ IF catalog = <<>>
                   THEN Exit(1) /\ last' = Step("no_panels", "-", FALSE, {})
                   ELSE IF plan.exc
                   THEN Exit(1) /\ last' = Step("plan_failed", "-", f, rf)
                   ELSE IF plan.list = <<>>
                   THEN Exit(0) /\ last' = Step("plan", "-", f, rf)
                   ELSE /\ pc' = "loop"
                        /\ force' = f
                        /\ panels' = catalog
                        /\ panels_to_update' = plan.list
                        /\ idx' = 1
                        /\ successful' = 0
                        /\ failed' = 0
                        /\ exitCode' = -1
                        /\ last' = Step("plan", "-", f, rf)
    /\ UNCHANGED <<tsv, dataFolder, concVars>>

\* extract_genes_incremental.py started on its own
StartRun(f, rf) == GeneScriptStart(f, rf) /\ UNCHANGED auxVars

\* variant: the marker is committed whatever the download returned
CommitDecision_Always(result) == TRUE

\* `if result['success']`: the marker is committed for successful downloads
CommitDecision(result) == result.success

\* variant: the loop is left at the first failed download
NextIndex_StopOnFailure(i, result, n) == IF result.success THEN i + 1 ELSE n + 1

\* `for panel in panels_to_update`: the loop goes on to the next panel of the
\* list of n panels, whatever the download of panel i returned
NextIndex(i, result, n) == i + 1

\* one iteration of the for loop: download the panel's genes (the server
\* behaves as sv), then commit its marker (the write suffers `fault`); an
\* exception of the commit reaches the handler of main, which exits with 1
GeneScriptPanel(sv, fault) ==
    /\ pc = "loop"
    /\ idx <= Len(panels_to_update)
    /\ LET panel == panels_to_update[idx]
           result == download_panel_genes(sv)
           commit == CommitDecision(result)
           w == IF commit THEN update_panel_version_tracking(versions, panel, fault)
                ELSE [files |-> versions, exc |-> "none"]
       IN  /\ (~commit => fault = "none")
           /\ versions' = w.files
           /\ IF w.exc # "none"
              THEN /\ Exit(1)
                   /\ last' = Step("commit_failed", panel.id, FALSE, {})
              ELSE /\ successful' = IF commit THEN successful + 1 ELSE successful
                   /\ failed' = IF commit THEN failed ELSE failed + 1
                   /\ idx' = NextIndex(idx, result, Len(panels_to_update))
                   /\ last' = Step(IF result.success THEN "commit" ELSE "download_failed",
                                   panel.id, force, last.rf)
                   /\ UNCHANGED <<pc, force, panels, panels_to_update, exitCode>>
    /\ UNCHANGED <<tsv, dataFolder, concVars>>

\* one iteration of the loop of a run started on its own
ProcessPanel(sv, fault) == GeneScriptPanel(sv, fault) /\ UNCHANGED auxVars

\* the loop is over: the summary is logged and main returns
GeneScriptFinish ==
    /\ pc = "loop"
    /\ idx > Len(panels_to_update)
    /\ Exit(0)
    /\ last' = Step("finish", "-", FALSE, {})
    /\ UNCHANGED <<versions, tsv, dataFolder, concVars>>

\* the end of a run started on its own
FinishRun == GeneScriptFinish /\ UNCHANGED auxVars

\* the run is interrupted (KeyboardInterrupt is no Exception: not handled)
GeneScriptInterrupt ==
    /\ pc = "loop"
    /\ Exit(130)
    /\ last' = Step("abort", "-", FALSE, {})
    /\ UNCHANGED <<versions, tsv, dataFolder, concVars>>

\* a run started on its own is interrupted
Abort == GeneScriptInterrupt /\ UNCHANGED auxVars

\* ------------------------------------------------------------ specification
\* the scripts run one at a time, as the wrapper runs them
Next ==
    \/ \E results \in ApiResponses, apiOK \in BOOLEAN,
          faultAt \in 0..Cardinality(Panels), fault \in WriteFaults :
          RunPanelList(results, apiOK, faultAt, fault)
    \/ \E f \in BOOLEAN, rf \in SUBSET Panels : StartRun(f, rf)
    \/ \E sv \in ServerBehaviours, fault \in WriteFaults : ProcessPanel(sv, fault)
    \/ FinishRun
    \/ Abort

Spec == Init /\ [][Next]_vars

\* ------------------------------------------- a writer and a reader overlap
\* texts a writer may put into a version file
WrittenTexts == Timestamps \cup {Junk, Blank}

\* `with open(version_file, 'w', ...) as f`: the file is created or truncated
COpen(p, text) ==
    /\ ~wr.open
    /\ text \in ApiMarkersOf(p)
    /\ wr' = [open |-> TRUE, id |-> p, prev |-> versions[p], text |-> text]
    /\ versions' = [versions EXCEPT ![p] = Empty]
    /\ UNCHANGED <<tsv, dataFolder, runVars, exitCode, last, observed, auxVars>>

\* `f.write(text)` and the end of the with block: the buffer reaches the file
CClose ==
    /\ wr.open
    /\ versions' = [versions EXCEPT ![wr.id] = wr.text]
    /\ wr' = NoWrite
    /\ UNCHANGED <<tsv, dataFolder, runVars, exitCode, last, observed, auxVars>>

\* the read of panel_needs_update: the file exists, f.read() returns its content
CRead(p) ==
    /\ versions[p] # Absent
    /\ observed' = [id |-> p, text |-> versions[p],
                    during |-> IF wr.open /\ wr.id = p THEN wr ELSE NoWrite]
    /\ UNCHANGED <<versions, tsv, dataFolder, runVars, exitCode, last, wr, auxVars>>

NextConc ==
    \/ \E p \in Panels, text \in WrittenTexts : COpen(p, text)
    \/ CClose
    \/ \E p \in Panels : CRead(p)

SpecConc == Init /\ [][NextConc]_vars

\* ------------------------------------------------ extract_panels.py (wrapper)
\* how a subprocess started by run_script ends
ScriptOutcomes == {"returncode_0", "returncode_nonzero", "TimeoutExpired", "Exception"}

\* variant: a missing script is a failure, optional or not
run_script_MissingFails(exists, optional, outcome) == exists /\ outcome = "returncode_0"

\* run_script: False or True for a missing script (True if it is optional),
\* else True iff the subprocess returns 0 within the hour
run_script(exists, optional, outcome) ==
    IF ~exists THEN optional ELSE outcome = "returncode_0"

\* the status of the incremental script as subprocess.run reports it
ReturnCode(code) == IF code = 0 THEN "returncode_0" ELSE "returncode_nonzero"

\* the wrapper's record after run_script was called for `step`
Called(step, exists, ok) ==
    [wrapper EXCEPT !.started = Append(@, step),
                    !.call = [step |-> step, exists |-> exists, ok |-> ok]]

\* what the API lists while the wrapper runs: well-formed UTC timestamps
WrapperMarkersOf(id) ==
    IF id = "137" THEN {Ts(t, "Z") : t \in 1..MaxTime} ELSE {Ts(1, "Z")}

WrapperResponses ==
    {s \in Lists(Timestamps) :
        \A i \in DOMAIN s : s[i].version_created \in WrapperMarkersOf(s[i].id)}

\* the servers the wrapper's gene step meets: those with a last page (what
\* the limit of the loop does is the matter of the pagination loops below)
WrapperServers == {sv \in ServerBehaviours : sv.pages # 0}

\* main is entered with the parsed arguments
WStart(skip_genes, skip_strs, skip_regions) ==
    /\ wrapper.pc = "off"
    /\ pc = "idle"
    /\ wrapper' = [WrapperOff EXCEPT !.pc = "panel_list", !.skip_genes = skip_genes,
                                     !.skip_strs = skip_strs, !.skip_regions = skip_regions]
    /\ UNCHANGED <<versions, tsv, dataFolder, runVars, exitCode, last, concVars, downloaded, dl>>

\* step 1: the panel list script (not optional); on failure sys.exit(1).  The
\* script returns 1 when extract_data raises and 0 otherwise.
WPanelList(exists, results, apiOK, faultAt, fault) ==
    /\ wrapper.pc = "panel_list"
    /\ IF exists
       THEN PanelListScript(results, apiOK, faultAt, fault)
       ELSE /\ results = <<>> /\ apiOK /\ faultAt = 0 /\ fault = "none"
            /\ UNCHANGED <<versions, tsv, dataFolder, runVars, exitCode, last, concVars>>
    /\ LET ok == run_script(exists, FALSE, ReturnCode(IF apiOK THEN 0 ELSE 1))
           w == Called("panel_list", exists, ok)
       IN  wrapper' = IF ok /\ dataFolder'
                      THEN [w EXCEPT !.pc = "genes"]
                      ELSE [w EXCEPT !.pc = "off", !.exit = 1]
    /\ UNCHANGED <<downloaded, dl>>

\* step 2: the incremental gene script is started without --force, unless
\* --skip-genes is given or the script is missing (run_script returns False)
WGenes(exists, rf) ==
    /\ wrapper.pc = "genes"
    /\ IF wrapper.skip_genes
       THEN /\ exists /\ rf = {}
            /\ wrapper' = [wrapper EXCEPT !.pc = "strs"]
            /\ UNCHANGED <<versions, tsv, dataFolder, runVars, exitCode, last, concVars>>
       ELSE IF ~exists
       THEN /\ rf = {}
            /\ LET ok == run_script(FALSE, FALSE, "returncode_0") IN
                wrapper' = [Called("genes", FALSE, ok)
                               EXCEPT !.pc = "strs", !.success = IF ok THEN @ ELSE FALSE]
            /\ UNCHANGED <<versions, tsv, dataFolder, runVars, exitCode, last, concVars>>
       ELSE /\ GeneScriptStart(FALSE, rf)
            /\ wrapper' = [wrapper EXCEPT !.pc = "genes_run", !.started = Append(@, "genes")]
    /\ UNCHANGED <<downloaded, dl>>

\* the gene script, running as the wrapper's subprocess, processes a panel;
\* the genes it has downloaded belong to the marker it commits
WGenesPanel(sv, fault) ==
    /\ wrapper.pc = "genes_run"
    /\ GeneScriptPanel(sv, fault)
    /\ downloaded' = IF last'.op = "commit"
                     THEN [downloaded EXCEPT ![panels_to_update[idx].id] =
                                                 panels_to_update[idx].version_created]
                     ELSE downloaded
    /\ UNCHANGED <<wrapper, dl>>

\* the subprocess reaches the end of its loop
WGenesFinish ==
    /\ wrapper.pc = "genes_run"
    /\ GeneScriptFinish
    /\ UNCHANGED auxVars

\* the hour of subprocess.run is over: the subprocess is killed
WGenesKilled ==
    /\ wrapper.pc = "genes_run"
    /\ GeneScriptInterrupt
    /\ UNCHANGED auxVars

\* subprocess.run returns (or raises TimeoutExpired); a failure is noted and
\* the wrapper goes on
WGenesDone ==
    /\ wrapper.pc = "genes_run"
    /\ pc = "idle"
    /\ LET outcome == IF exitCode = 130 THEN "TimeoutExpired" ELSE ReturnCode(exitCode)
           ok == run_script(TRUE, FALSE, outcome)
       IN  wrapper' = [wrapper EXCEPT !.pc = "strs",
                                      !.call = [step |-> "genes", exists |-> TRUE, ok |-> ok],
                                      !.success = IF ok THEN @ ELSE FALSE]
    /\ UNCHANGED <<versions, tsv, dataFolder, runVars, exitCode, last, concVars, downloaded, dl>>

\* step 3: extract_strs.py, optional; its result is only logged.  The script
\* is not part of the repository: it is taken not to touch version records.
WStrs(exists, outcome) ==
    /\ wrapper.pc = "strs"
    /\ wrapper' = IF wrapper.skip_strs
                  THEN [wrapper EXCEPT !.pc = "regions"]
                  ELSE [Called("strs", exists, run_script(exists, TRUE, outcome))
                           EXCEPT !.pc = "regions"]
    /\ UNCHANGED <<versions, tsv, dataFolder, runVars, exitCode, last, concVars, downloaded, dl>>

\* step 4: extract_regions.py, optional; then the summary, and main returns
WRegions(exists, outcome) ==
    /\ wrapper.pc = "regions"
    /\ wrapper' = IF wrapper.skip_regions
                  THEN [wrapper EXCEPT !.pc = "off", !.exit = 0]
                  ELSE [Called("regions", exists, run_script(exists, TRUE, outcome))
                           EXCEPT !.pc = "off", !.exit = 0]
    /\ UNCHANGED <<versions, tsv, dataFolder, runVars, exitCode, last, concVars, downloaded, dl>>

\* the wrapper is run again and again on the same data folder
NextWrapper ==
    \/ \E sg \in BOOLEAN, ss \in BOOLEAN, sr \in BOOLEAN : WStart(sg, ss, sr)
    \/ \E exists \in BOOLEAN, results \in WrapperResponses, apiOK \in BOOLEAN,
          faultAt \in 0..Cardinality(Panels), fault \in WriteFaults :
          WPanelList(exists, results, apiOK, faultAt, fault)
    \/ \E exists \in BOOLEAN, rf \in SUBSET Panels : WGenes(exists, rf)
    \/ \E sv \in WrapperServers, fault \in WriteFaults : WGenesPanel(sv, fault)
    \/ WGenesFinish
    \/ WGenesKilled
    \/ WGenesDone
    \/ \E exists \in BOOLEAN, outcome \in ScriptOutcomes : WStrs(exists, outcome)
    \/ \E exists \in BOOLEAN, outcome \in ScriptOutcomes : WRegions(exists, outcome)

SpecWrapper == Init /\ [][NextWrapper]_vars

\* ------------------------------------------------------ the pagination loops
\* the safety limits of download_panels and of extract_genes.py
PanelPageLimit == 1000
ExtractorPageLimit == 100

\* the three scripts with a pagination loop, and the limit of each
PagingScripts == {"extract_genes_incremental", "extract_panel_list", "extract_genes"}

Limit(script) ==
    CASE script = "extract_genes_incremental" -> PageLimit
      [] script = "extract_panel_list" -> PanelPageLimit
      [] script = "extract_genes" -> ExtractorPageLimit

\* what one pass of the while body meets: the request, raise_for_status or
\* json() raises; the page file cannot be written; the page carries a next
\* link; the page carries none (None, "" or "null")
PageOutcomes == {"request_error", "save_error", "next", "last"}

\* variant: no safety check after page += 1
Iteration_NoLimit(d, outcome) ==
    IF outcome \in {"request_error", "save_error"}
    THEN [d EXCEPT !.pc = "failed", !.requested = @ + 1, !.success = FALSE]
    ELSE [d EXCEPT !.requested = @ + 1, !.saved = @ + 1, !.file = d.page,
                   !.next_url = (outcome = "next"), !.page = @ + 1,
                   !.pc = IF outcome = "next" THEN "loop" ELSE "done",
                   !.success = (outcome # "next")]

\* one pass of the while body with the locals d: page `page` is requested and
\* written to <...>_page_{page}.json, next_url is taken from it, page is
\* incremented and the limit checked; then the loop condition.  Leaving the
\* loop by break or by its condition leads to the same return (True).
Iteration(d, outcome) ==
    IF outcome \in {"request_error", "save_error"}
    THEN [d EXCEPT !.pc = "failed", !.requested = @ + 1, !.success = FALSE]
    ELSE LET more == (outcome = "next") /\ ~(d.page + 1 > Limit(d.script)) IN
         [d EXCEPT !.requested = @ + 1, !.saved = @ + 1, !.file = d.page,
                   !.next_url = (outcome = "next"), !.page = @ + 1,
                   !.pc = IF more THEN "loop" ELSE "done",
                   !.success = ~more]

\* page = 1, next_url = the first URL
DlStart(script) ==
    /\ dl.pc \in {"off", "returned"}
    /\ dl' = [NoDownload EXCEPT !.pc = "loop", !.script = script, !.page = 1,
                                !.next_url = TRUE]
    /\ UNCHANGED <<versions, tsv, dataFolder, runVars, exitCode, last, concVars,
                   wrapper, downloaded>>

DlPage(outcome) ==
    /\ dl.pc = "loop"
    /\ dl' = Iteration(dl, outcome)
    /\ UNCHANGED <<versions, tsv, dataFolder, runVars, exitCode, last, concVars,
                   wrapper, downloaded>>

\* the function returns; main of the incremental script commits the marker
\* of the panel if the result says success
DlReturn ==
    /\ dl.pc \in {"done", "failed"}
    /\ dl' = [dl EXCEPT !.pc = "returned",
                        !.committed = /\ dl.script = "extract_genes_incremental"
                                      /\ CommitDecision([success |-> dl.success])]
    /\ UNCHANGED <<versions, tsv, dataFolder, runVars, exitCode, last, concVars,
                   wrapper, downloaded>>

NextPages ==
    \/ \E script \in PagingScripts : DlStart(script)
    \/ \E outcome \in PageOutcomes : DlPage(outcome)
    \/ DlReturn

\* a request returns or raises within its timeout of 30 seconds, so a loop
\* that can make its next pass does so
SpecPages ==
    Init /\ [][NextPages]_vars /\ WF_vars(\E outcome \in PageOutcomes : DlPage(outcome))

TypeOK ==
    /\ versions \in [Panels -> Timestamps \cup {Junk, Blank, Empty, Absent}]
    /\ pc \in {"idle", "loop"}
    /\ exitCode \in {-1, 0, 1, 130}

\* ================================================================== claims
\* the catalog the incremental script reads in the current state
Catalog == read_panel_data(tsv)

\* the instant of a timestamp text on the UTC time line, a text without an
\* offset being read as UTC
UtcInstant(x) == x.t - (IF x.off = "+01:00" THEN 1 ELSE 0)

\* markers a catalog row can carry once read
CatalogMarkers == Timestamps \cup {Junk, Empty}

InPlan(e) == \E j \in DOMAIN panels_to_update : panels_to_update[j] = e

\* isStale(e.id, e.version_marker) against the records of the current state
IsStale(e, ioFail) == panel_needs_update(e, versions, FALSE, ioFail) = "True"

\* C1: for every pair of parseable timestamps (stored, incoming), isStale is
\* true iff incoming is strictly later than stored on the UTC time line
C1_StaleIffStrictlyLater ==
    \A p \in Panels, m \in Timestamps :
        Strip(versions[p]) \in Timestamps =>
            (IsStale([id |-> p, version_created |-> m], FALSE)
                <=> UtcInstant(m) > UtcInstant(Strip(versions[p])))

\* C2: a version record is created or changed only by the step that follows
\* a successful gene download of that very panel
C2_WrittenOnlyAfterRefresh ==
    [][\A p \in Panels :
          versions'[p] # versions[p] =>
              (last'.op \in {"commit", "commit_failed"} /\ last'.id = p)]_vars

\* C3 (as stated): after a failed download the record of the panel is as it
\* was before, and a non-forced planning pass over the same catalog includes
\* the panel
C3_FailedRefreshIsRetried ==
    [][last'.op = "download_failed" =>
          LET e == panels_to_update[idx] IN
          /\ versions'[e.id] = versions[e.id]
          /\ panel_needs_update(e, versions', FALSE, FALSE) = "True"]_vars

\* C3 (amended): after a failed download no record has changed, and a panel
\* that a non-forced pass had planned from a readable or missing record is
\* planned again by a non-forced pass over the same catalog
C3_FailedRefreshKeepsMarker ==
    [][last'.op = "download_failed" =>
          LET e == panels_to_update[idx] IN
          /\ versions' = versions
          /\ (~force /\ e.id \notin last.rf)
                => panel_needs_update(e, versions', FALSE, FALSE) = "True"]_vars

\* a non-forced run failed to download a panel whose record holds a timestamp
C3_Witness ==
    /\ last.op = "download_failed"
    /\ ~last.force
    /\ last.rf = {}
    /\ versions[last.id] \in Timestamps
    /\ panels_to_update[idx - 1].version_created \in Timestamps

\* C4: a panel without a version record is stale whatever the incoming marker
\* is, and every plan, forced or not, includes it
C4_NoRecordIsPlanned ==
    /\ \A p \in Panels, m \in CatalogMarkers, f \in BOOLEAN, ioFail \in BOOLEAN :
          versions[p] = Absent =>
              panel_needs_update([id |-> p, version_created |-> m], versions, f, ioFail) = "True"
    /\ last.op = "plan" =>
          \A i \in DOMAIN Catalog : versions[Catalog[i].id] = Absent => InPlan(Catalog[i])

\* a non-forced plan holds a panel that has no record, next to a panel that
\* has one and is left out
C4_Witness ==
    /\ last.op = "plan"
    /\ ~last.force
    /\ \E i \in DOMAIN Catalog : versions[Catalog[i].id] = Absent /\ InPlan(Catalog[i])
    /\ \E i \in DOMAIN Catalog : versions[Catalog[i].id] # Absent /\ ~InPlan(Catalog[i])

\* C5: the plan is the subsequence of the catalog, in catalog order, of the
\* panels for which force or isStale holds; under force it is the catalog
C5_PlanIsOrderedFilter ==
    last.op = "plan" =>
        /\ \A j \in DOMAIN panels_to_update :
              \E i \in DOMAIN Catalog : Catalog[i] = panels_to_update[j]
        /\ \A j1, j2 \in DOMAIN panels_to_update :
              j1 < j2 =>
                 \E i1, i2 \in DOMAIN Catalog :
                    /\ i1 < i2
                    /\ Catalog[i1] = panels_to_update[j1]
                    /\ Catalog[i2] = panels_to_update[j2]
        /\ \A i \in DOMAIN Catalog :
              InPlan(Catalog[i]) <=> (last.force \/ IsStale(Catalog[i], Catalog[i].id \in last.rf))
        /\ last.force => panels_to_update = Catalog

\* a non-forced plan over two panels keeps both, in catalog order
C5_Witness ==
    /\ last.op = "plan"
    /\ ~last.force
    /\ Len(Catalog) = 2
    /\ panels_to_update = Catalog
    /\ \A i \in DOMAIN Catalog : versions[Catalog[i].id] \in Timestamps

\* C6: once the marker of e (a timestamp) is committed, e is out of every
\* non-forced plan for any catalog marker that is not later than the stored one
C6_CommittedStaysOut ==
    [][(last'.op = "commit" /\ versions'[last'.id] \in Timestamps) =>
          \A m \in Timestamps :
              ~(UtcInstant(m) > UtcInstant(versions'[last'.id])) =>
                  panel_needs_update([id |-> last'.id, version_created |-> m],
                                     versions', FALSE, FALSE) = "False"]_vars

\* C7: a malformed record (empty, whitespace only, no timestamp) makes the
\* panel stale for every incoming marker, and planning never raises
C7_MalformedRecordIsStale ==
    /\ \A p \in Panels, m \in CatalogMarkers, ioFail \in BOOLEAN :
          Strip(versions[p]).k \in {"empty", "junk"} =>
              panel_needs_update([id |-> p, version_created |-> m], versions, FALSE, ioFail) = "True"
    /\ last.op # "plan_failed"
    /\ (last.op = "plan" /\ ~last.force) =>
          \A i \in DOMAIN Catalog :
              Strip(versions[Catalog[i].id]).k \in {"empty", "junk"} => InPlan(Catalog[i])

\* a non-forced plan holds a panel whose record is no timestamp while the
\* catalog carries a timestamp for it
C7_Witness ==
    /\ last.op = "plan"
    /\ ~last.force
    /\ \E i \in DOMAIN Catalog :
          /\ versions[Catalog[i].id] = Junk
          /\ Catalog[i].version_created \in Timestamps
          /\ InPlan(Catalog[i])

\* C8: when exactly one of (stored, incoming) carries an offset, the one
\* without is taken as UTC and the two are compared chronologically
C8_NaiveIsUtc ==
    \A i \in DOMAIN Catalog :
        LET e == Catalog[i]
            stored == Strip(versions[e.id])
        IN  (/\ stored \in Timestamps
             /\ e.version_created \in Timestamps
             /\ (stored.off = "none") # (e.version_created.off = "none"))
            => (IsStale(e, FALSE) <=> UtcInstant(e.version_created) > UtcInstant(stored))

\* C9: a read that overlaps a write of the same record returns the complete
\* previous value or the complete new value
C9_ReadSeesOldOrNew ==
    (observed.during.open /\ observed.during.prev # Absent) => observed.text \in {observed.during.prev, observed.during.text}

\* C10: a version file that cannot be read, or a marker that cannot be
\* written, ends the step with an error instead of a planning decision
C10_StorageFailureSurfaced ==
    /\ (last.op = "plan" => last.rf = {})
    /\ (last.op = "commit_failed" => exitCode = 1)

\* C11: computing the refresh list, forced or not, leaves every version
\* record, and the set of panels that have one, as they were
C11_PlanLeavesRecordsAlone ==
    [][last'.op \in {"plan", "plan_failed", "no_panels", "no_folder"} =>
          /\ \A p \in Panels : versions'[p] = versions[p]
          /\ {p \in Panels : versions'[p] # Absent} = {p \in Panels : versions[p] # Absent}]_vars

\* a non-forced plan was computed over a malformed record and a timestamp
C11_Witness ==
    /\ last.op = "plan"
    /\ ~last.force
    /\ Len(Catalog) = 2
    /\ versions["137"] = Junk
    /\ versions["42"] \in Timestamps

\* the marker as panel_needs_update reads it back: f.read().strip()
ReadBack(files, id) == Strip(OpenRead(files, id).text)

\* C12: a commit followed at once by a read of the same panel's record gives
\* exactly the marker that was committed, whether the record was missing
\* before or held another value
C12_ReadAfterCommit ==
    [][last'.op = "commit" =>
          ReadBack(versions', last'.id) = panels_to_update[idx].version_created]_vars

\* a non-forced run committed a timestamp: the record it replaced was missing
\* or held something else, or the panel would not have been in the plan
C12_Witness ==
    /\ last.op = "commit"
    /\ ~last.force
    /\ last.rf = {}
    /\ versions[last.id] \in Timestamps

\* C13: committing the same catalog entry a second time leaves the record of
\* its panel and the records of all other panels as the first commit left them
C13_CommitIdempotent ==
    [][last'.op = "commit" =>
          update_panel_version_tracking(versions', panels_to_update[idx], "none").files
              = versions']_vars

\* a commit was made while another panel has a record as well
C13_Witness ==
    /\ last.op = "commit"
    /\ \E q \in Panels \ {last.id} : versions[q] \notin {Absent, Empty}

\* C14: a failed download changes no record and does not end the run: the
\* panels of the plan are attempted one after the other, each once and in the
\* order of the plan, whatever earlier downloads returned, and the run
\* finishes only after the last of them
C14_EveryPlannedPanelAttempted ==
    [][/\ (last'.op = "plan" /\ pc' = "loop") => idx' = 1
       /\ last'.op \in {"commit", "download_failed"} =>
             /\ last'.id = panels_to_update[idx].id
             /\ idx' = idx + 1
             /\ pc' = "loop"
             /\ panels_to_update' = panels_to_update
       /\ last'.op = "download_failed" => versions' = versions
       /\ last'.op = "finish" => idx = Len(panels_to_update) + 1]_vars

\* the download of the first planned panel failed, the second was attempted
\* and committed
C14_Witness ==
    /\ pc = "loop"
    /\ last.op = "commit"
    /\ idx = 3
    /\ failed = 1
    /\ successful = 1

C16_NewerUpstreamIsSelected ==
    [][(wrapper.pc = "genes" /\ wrapper'.pc = "genes_run" /\ last'.op = "plan") =>
          \A i \in DOMAIN Catalog :
              LET e == Catalog[i] IN
              (/\ downloaded[e.id] \in Timestamps
               /\ e.version_created \in Timestamps
               /\ UtcInstant(e.version_created) > UtcInstant(downloaded[e.id]))
                  => \E j \in DOMAIN panels_to_update' : panels_to_update'[j] = e]_vars

\* the place of a step in the wrapper's order
StepNo(s) ==
    CASE s = "panel_list" -> 1 [] s = "genes" -> 2 [] s = "strs" -> 3 [] s = "regions" -> 4

\* run_script has been called for the step in this run of the wrapper
Started(s) == \E i \in DOMAIN wrapper.started : wrapper.started[i] = s

\* C17: the wrapper starts its steps in the order panel list, genes, STRs,
\* regions, each at most once; a failed or missing panel list script ends it
\* with status 1 before any other step, and nothing else does; a skipped step
\* is never started; every step not skipped is started once the panel list
\* has succeeded, a failed gene step included; a missing optional script
\* counts as success, a missing required one as failure
C17_WrapperSteps ==
    /\ \A i, j \in DOMAIN wrapper.started :
           i < j => StepNo(wrapper.started[i]) < StepNo(wrapper.started[j])
    /\ (wrapper.call.step = "panel_list" /\ ~wrapper.call.ok) =>
           (wrapper.pc = "off" /\ wrapper.exit = 1 /\ wrapper.started = <<"panel_list">>)
    /\ wrapper.exit = 1 => (wrapper.call.step = "panel_list" /\ ~wrapper.call.ok)
    /\ wrapper.skip_genes => ~Started("genes")
    /\ wrapper.skip_strs => ~Started("strs")
    /\ wrapper.skip_regions => ~Started("regions")
    /\ wrapper.exit = 0 =>
           /\ Started("panel_list")
           /\ ~wrapper.skip_genes => Started("genes")
           /\ ~wrapper.skip_strs => Started("strs")
           /\ ~wrapper.skip_regions => Started("regions")
    /\ (wrapper.call.step \in {"strs", "regions"} /\ ~wrapper.call.exists) => wrapper.call.ok
    /\ (wrapper.call.step \in {"panel_list", "genes"} /\ ~wrapper.call.exists) => ~wrapper.call.ok

\* the gene step failed, the STR and region steps were started all the same,
\* and the missing region script was counted as success
C17_Witness ==
    /\ wrapper.exit = 0
    /\ ~wrapper.success
    /\ wrapper.started = <<"panel_list", "genes", "strs", "regions">>
    /\ wrapper.call.step = "regions"
    /\ ~wrapper.call.exists
    /\ wrapper.call.ok

\* C18: a pagination loop ends, whatever the server answers: it makes at most
\* 100 requests per panel (1000 for the panel list), the page files are
\* numbered 1, 2, ... without gaps, and when page k+1 is about to be
\* requested the pages up to k are on disk
C18_PaginationEnds ==
    /\ [](dl.pc # "off" =>
            /\ dl.requested <= Limit(dl.script)
            /\ dl.file = dl.saved
            /\ dl.saved \in {dl.requested, dl.requested - 1}
            /\ dl.pc = "loop" => (dl.page = dl.requested + 1 /\ dl.saved = dl.requested))
    /\ (dl.pc = "loop") ~> (dl.pc \in {"done", "failed"})

\* the server answered every page with a next link and download_panels
\* stopped after its 1000th page
C18_Witness ==
    /\ dl.pc = "done"
    /\ dl.script = "extract_panel_list"
    /\ dl.next_url
    /\ dl.requested = PanelPageLimit
    /\ dl.saved = PanelPageLimit

\* C19 (as stated): a marker is committed only after a download whose last
\* page carried no next link
C19_CommittedOnlyWhenComplete ==
    dl.committed => ~dl.next_url

\* C20 (as stated, for records that can be read and catalog markers that
\* parse): in a run without --force, a commit that replaces a parseable
\* marker puts a strictly later instant in its place
C20_MarkerNeverMovesBack ==
    [][(/\ last'.op = "commit"
        /\ ~last'.force
        /\ last'.id \notin last'.rf
        /\ Strip(versions[last'.id]) \in Timestamps
        /\ versions'[last'.id] \in Timestamps)
          => UtcInstant(versions'[last'.id]) > UtcInstant(Strip(versions[last'.id]))]_vars

\* C21 (as stated): the incremental script ends with status 1 when the data
\* folder is missing or the catalog has no panels, with status 0 when the
\* plan is empty, and after its loop with status 0 if every planned download
\* succeeded and with a non-zero status if at least one failed
C21_ExitStatusReflectsOutcome ==
    [][/\ last'.op \in {"no_folder", "no_panels"} => exitCode' = 1
       /\ (last'.op = "plan" /\ pc' = "idle") => exitCode' = 0
       /\ last'.op = "finish" =>
             (IF failed > 0 THEN exitCode' # 0 ELSE exitCode' = 0)]_vars

====
